---- MODULE Spec2Model ----
\* Model of python/polkadot_verifier.py: the ctypes facade verify() and
\* get_version() over the native library libpolkadot_sig_verifier.so.
\* Python strings are sequences of code points, bytes objects sequences of
\* 0..255.  The native library is not part of the Python source; it is
\* modelled at reduced scale from its specification (3-character addresses,
\* 2-byte signatures, a prime-order toy group).
EXTENDS Integers, Sequences, FiniteSets, TLC

VARIABLES pc, frame, module, native, pool, active, started, pinned

vars == <<pc, frame, module, native, pool, active, started, pinned>>

\* ---------------------------------------------------------------- bounds
NumThreads == 2
MaxCalls == 3

Threads == 1..NumThreads

\* ------------------------------------------------------- string helpers
RangeSeq(a, b) == [i \in 1..(b - a + 1) |-> a + i - 1]

Prefix(s, n) == [i \in 1..n |-> s[i]]

Drop(s, n) == [i \in 1..(Len(s) - n) |-> s[i + n]]

StartsWith(s, p) == Len(s) >= Len(p) /\ Prefix(s, Len(p)) = p

EndsWith(s, p) == Len(s) >= Len(p) /\ Drop(s, Len(s) - Len(p)) = p

RECURSIVE Flatten(_)
Flatten(ss) == IF ss = <<>> THEN <<>> ELSE Head(ss) \o Flatten(Tail(ss))

RECURSIVE SumSeq(_)
SumSeq(s) == IF s = <<>> THEN 0 ELSE Head(s) + SumSeq(Tail(s))

\* "<Bytes>" and "</Bytes>" as code points (all ASCII)
OpenTag == <<60, 66, 121, 116, 101, 115, 62>>

CloseTag == <<60, 47, 66, 121, 116, 101, 115, 62>>

\* ------------------------------------------------- str.encode() (UTF-8)
IsSurrogate(cp) == cp >= 55296 /\ cp <= 57343

Encodable(s) == \A i \in 1..Len(s) : ~IsSurrogate(s[i])

Utf8Char(cp) ==
    IF cp < 128 THEN <<cp>>
    ELSE IF cp < 2048 THEN <<192 + (cp \div 64), 128 + (cp % 64)>>
    ELSE IF cp < 65536
         THEN <<224 + (cp \div 4096), 128 + ((cp \div 64) % 64), 128 + (cp % 64)>>
    ELSE <<240 + (cp \div 262144), 128 + ((cp \div 4096) % 64),
           128 + ((cp \div 64) % 64), 128 + (cp % 64)>>

StrEncode(s) == Flatten([i \in 1..Len(s) |-> Utf8Char(s[i])])

\* --------------------------------------------- bytes.decode() (UTF-8)
IsCont(b) == b >= 128 /\ b < 192

RECURSIVE BytesDecode(_)
BytesDecode(b) ==
    IF b = <<>> THEN [ok |-> TRUE, chars |-> <<>>]
    ELSE LET h == Head(b)
             n == IF h < 128 THEN 1
                  ELSE IF h >= 194 /\ h < 224 THEN 2
                  ELSE IF h >= 224 /\ h < 240 THEN 3
                  ELSE IF h >= 240 /\ h < 245 THEN 4 ELSE 0
         IN IF n = 0 \/ Len(b) < n \/ \E i \in 2..n : ~IsCont(b[i])
            THEN [ok |-> FALSE, chars |-> <<>>]
            ELSE LET cp == IF n = 1 THEN h
                           ELSE IF n = 2 THEN (h - 192) * 64 + (b[2] - 128)
                           ELSE IF n = 3
                                THEN (h - 224) * 4096 + (b[2] - 128) * 64 + (b[3] - 128)
                           ELSE (h - 240) * 262144 + (b[2] - 128) * 4096
                                + (b[3] - 128) * 64 + (b[4] - 128)
                     rest == BytesDecode(Drop(b, n))
                 IN IF ~rest.ok \/ IsSurrogate(cp) THEN [ok |-> FALSE, chars |-> <<>>]
                    ELSE [ok |-> TRUE, chars |-> <<cp>> \o rest.chars]

\* ------------------------------------------------ ctypes conversions
\* c_char_p argument: the callee reads the buffer up to its first NUL byte
RECURSIVE CStr(_)
CStr(b) == IF b = <<>> \/ Head(b) = 0 THEN <<>> ELSE <<Head(b)>> \o CStr(Tail(b))

\* restype c_uint8: the low byte of the returned value
Restype(raw) == raw % 256

\* ------------------------------------------------------------------
\* The native library (libpolkadot_sig_verifier.so), at reduced scale:
\* an address is three base58 characters (prefix, key, checksum), a
\* signature two bytes (R, s) in hex, the group the integers mod GroupOrder.
GroupOrder == 13

ErrorKinds == {"InvalidEncoding", "InvalidLength", "ChecksumMismatch",
               "InvalidPoint", "InvalidScalar", "EquationMismatch"}

\* base58 alphabet: no '0', 'O', 'I', 'l'
Base58Alphabet ==
    RangeSeq(49, 57) \o RangeSeq(65, 72) \o RangeSeq(74, 78) \o RangeSeq(80, 90)
    \o RangeSeq(97, 107) \o RangeSeq(109, 122)

IsBase58(b) == \E i \in 1..Len(Base58Alphabet) : Base58Alphabet[i] = b

Base58Index(b) == (CHOOSE i \in 1..Len(Base58Alphabet) : Base58Alphabet[i] = b) - 1

\* stands for the first bytes of blake2b-512("SS58PRE" + prefix + pubkey)
Checksum(prefix, key) == (prefix + key + 7) % Len(Base58Alphabet)

decode_ss58(a) ==
    IF \E i \in 1..Len(a) : ~IsBase58(a[i])
    THEN [err |-> "InvalidEncoding", key |-> 0, prefix |-> 0]
    ELSE IF Len(a) # 3
    THEN [err |-> "InvalidLength", key |-> 0, prefix |-> 0]
    ELSE IF Base58Index(a[3]) # Checksum(Base58Index(a[1]), Base58Index(a[2]))
    THEN [err |-> "ChecksumMismatch", key |-> 0, prefix |-> 0]
    ELSE [err |-> "none", key |-> Base58Index(a[2]), prefix |-> Base58Index(a[1])]

IsHex(b) == (b >= 48 /\ b <= 57) \/ (b >= 97 /\ b <= 102) \/ (b >= 65 /\ b <= 70)

HexValue(b) == IF b <= 57 THEN b - 48 ELSE IF b >= 97 THEN b - 87 ELSE b - 55

StripHexPrefix(s) == IF StartsWith(s, <<48, 120>>) THEN Drop(s, 2) ELSE s

decode_signature(sig) ==
    LET h == StripHexPrefix(sig)
    IN IF Len(h) % 2 = 1 \/ \E i \in 1..Len(h) : ~IsHex(h[i])
       THEN [err |-> "InvalidEncoding", bytes |-> <<>>]
       ELSE LET raw == [i \in 1..(Len(h) \div 2) |->
                           16 * HexValue(h[2 * i - 1]) + HexValue(h[2 * i])]
            IN IF Len(raw) # 2
               THEN [err |-> "InvalidLength", bytes |-> <<>>]
               ELSE [err |-> "none", bytes |-> raw]

\* stands for the transcript challenge over (public key, R, message)
Challenge(key, R, msg) == (key + R + SumSeq(msg)) % GroupOrder

\* the verification equation s*G = R + c*P, with G = 1
sr25519_verify(key, sig, msg) ==
    IF key >= GroupOrder \/ sig[1] >= GroupOrder THEN "InvalidPoint"
    ELSE IF sig[2] >= GroupOrder THEN "InvalidScalar"
    ELSE IF sig[2] = (sig[1] + Challenge(key, sig[1], msg) * key) % GroupOrder THEN "Ok"
    ELSE "EquationMismatch"

\* the uint8 the foreign function returns: 1 for valid, 0 for any error
NativeVerdict(kind) == IF kind = "Ok" THEN 1 ELSE 0

\* the whole foreign function on the three C strings it reads
verify_polkadot_signature(a, s, m) ==
    LET d == decode_ss58(a)
        g == decode_signature(s)
    IN IF d.err # "none" THEN d.err
       ELSE IF g.err # "none" THEN g.err
       ELSE sr25519_verify(d.key, g.bytes, m)

\* the process-wide static version string, "0.1.0"
VersionStatic == <<48, 46, 49, 46, 48>>

\* ------------------------------------------------------------ inputs
HexDigit(n) == IF n < 10 THEN 48 + n ELSE 87 + n

HexByte(b) == <<HexDigit(b \div 16), HexDigit(b % 16)>>

MkAddress(prefix, key) ==
    <<Base58Alphabet[prefix + 1], Base58Alphabet[key + 1],
      Base58Alphabet[Checksum(prefix, key) + 1]>>

\* hex signature of the key over the bytes msg, with nonce point R
SignHex(key, R, msg) ==
    HexByte(R) \o HexByte((R + Challenge(key, R, msg) * key) % GroupOrder)

Envelope(msg) == OpenTag \o msg \o CloseTag

GoodAddr == MkAddress(0, 2)

MsgEmpty == <<>>

MsgA == <<97>>

MsgWrapped == OpenTag \o MsgA \o CloseTag

MsgNul == <<97, 0, 120>>

MsgAccent == <<233>>

MsgSurrogate == <<55296>>

GoodSig(m) == SignHex(2, 5, Envelope(StrEncode(m)))

In(a, s, m) == [address |-> a, signature |-> s, message |-> m]

Inputs ==
    { In(GoodAddr, GoodSig(MsgA), MsgA),
      In(GoodAddr, <<48, 120>> \o GoodSig(MsgA), MsgA),
      In(GoodAddr, GoodSig(MsgA), MsgEmpty),
      In(GoodAddr, GoodSig(MsgEmpty), MsgEmpty),
      In(<<>>, <<>>, <<>>),
      In(GoodAddr \o GoodAddr, GoodSig(MsgA), MsgA),
      In(<<48>> \o Tail(GoodAddr), GoodSig(MsgA), MsgA),
      In(<<GoodAddr[1], GoodAddr[2], GoodAddr[2]>>, GoodSig(MsgA), MsgA),
      In(MkAddress(0, 20), GoodSig(MsgA), MsgA),
      In(GoodAddr, <<122, 122, 122, 122>>, MsgA),
      In(GoodAddr, HexByte(5), MsgA),
      In(GoodAddr, HexByte(200) \o HexByte(3), MsgA),
      In(GoodAddr, HexByte(5) \o HexByte(200), MsgA),
      In(GoodAddr, GoodSig(MsgA), MsgWrapped),
      In(GoodAddr, GoodSig(MsgWrapped), MsgWrapped),
      In(GoodAddr, SignHex(2, 5, OpenTag \o MsgA), MsgNul),
      In(GoodAddr, GoodSig(MsgAccent), MsgAccent),
      In(GoodAddr, GoodSig(MsgA), MsgSurrogate),
      In(MsgSurrogate, GoodSig(MsgA), MsgA) }

ConcInputs ==
    { In(GoodAddr, GoodSig(MsgA), MsgA),
      In(GoodAddr, GoodSig(MsgA), MsgEmpty),
      In(GoodAddr, GoodSig(MsgA), MsgWrapped),
      In(GoodAddr, SignHex(2, 5, OpenTag \o MsgA), MsgNul),
      In(GoodAddr, GoodSig(MsgA), MsgSurrogate) }

\* ------------------------------------------------------- Python values
NoOutcome == [kind |-> "none", type |-> "none", bool |-> FALSE, chars |-> <<>>]

ReturnBool(b) == [kind |-> "return", type |-> "bool", bool |-> b, chars |-> <<>>]

ReturnStr(s) == [kind |-> "return", type |-> "str", bool |-> FALSE, chars |-> s]

ReturnBytes(b) == [kind |-> "return", type |-> "bytes", bool |-> FALSE, chars |-> b]

Raise(exc) == [kind |-> "raise", type |-> exc, bool |-> FALSE, chars |-> <<>>]

\* the locals of one call, and what the native function holds during it
EmptyFrame ==
    [address |-> <<>>, signature |-> <<>>, message |-> <<>>,
     wrapped_message |-> <<>>, args |-> <<>>, cargs |-> <<>>,
     pubkey |-> 0, sig |-> <<>>, kind |-> "none", result |-> 0,
     outcome |-> NoOutcome, stages |-> <<>>, ncalls |-> 0]

\* module globals after import: lib_path, lib and its configured signatures
ModuleInit ==
    [lib_path |-> "target/release/libpolkadot_sig_verifier.so",
     verify_argtypes |-> <<"c_char_p", "c_char_p", "c_char_p">>,
     verify_restype |-> "c_uint8",
     get_version_argtypes |-> <<>>,
     get_version_restype |-> "c_char_p"]

\* the first verify call that finished: its input, the error kind the
\* library met, and its outcome
NoPin ==
    [set |-> FALSE, input |-> In(<<>>, <<>>, <<>>), kind |-> "none",
     outcome |-> NoOutcome]

InputOf(f) == In(f.address, f.signature, f.message)

\* ------------------------------------------------------------ verify()
\* mutant: wraps only a message that is not wrapped already
WrapDetect(message) ==
    IF StartsWith(message, OpenTag) /\ EndsWith(message, CloseTag)
    THEN message
    ELSE OpenTag \o message \o CloseTag

\* line 20: wrapped_message = f"<Bytes>{message}</Bytes>"
Wrap(message) == OpenTag \o message \o CloseTag

\* mutant: passes message.encode() instead of wrapped_message.encode()
EncodeArgsUnwrapped(f) ==
    <<StrEncode(f.address), StrEncode(f.signature), StrEncode(f.message)>>

\* lines 22-24: the three .encode() calls
EncodeArgs(f) ==
    <<StrEncode(f.address), StrEncode(f.signature), StrEncode(f.wrapped_message)>>

ArgsEncodable(f) ==
    Encodable(f.address) /\ Encodable(f.signature) /\ Encodable(f.wrapped_message)

\* mutant: any non-zero result counts as valid
ToBoolTruthy(result) == result # 0

\* mutant: the comparison is inverted
ToBoolInverted(result) == result = 0

\* line 26: result == 1
ToBool(result) == result = 1

\* mutant: the .decode() is missing, the bytes object is returned
GvResultNoDecode(raw) == ReturnBytes(raw)

\* line 31: lib.get_version().decode()
GvResult(raw) ==
    LET d == BytesDecode(raw)
    IN IF d.ok THEN ReturnStr(d.chars) ELSE Raise("UnicodeDecodeError")

CallVerify(t, in) ==
    /\ t \in active
    /\ in \in pool
    /\ pc[t] = "idle"
    /\ started < MaxCalls
    /\ started' = started + 1
    /\ frame' = [frame EXCEPT ![t] = [EmptyFrame EXCEPT !.address = in.address,
                                                         !.signature = in.signature,
                                                         !.message = in.message]]
    /\ pc' = [pc EXCEPT ![t] = "wrap"]
    /\ UNCHANGED <<module, native, pool, active, pinned>>

\* mutant: the wrapped message is memoised in a module global
DoWrapCached(t) ==
    /\ pc[t] = "wrap"
    /\ IF "wrapped_message" \in DOMAIN module
       THEN /\ frame' = [frame EXCEPT ![t].wrapped_message = module.wrapped_message,
                                      ![t].stages = Append(@, "wrap")]
            /\ UNCHANGED module
       ELSE /\ frame' = [frame EXCEPT ![t].wrapped_message = Wrap(frame[t].message),
                                      ![t].stages = Append(@, "wrap")]
            /\ module' = module @@ [wrapped_message |-> Wrap(frame[t].message)]
    /\ pc' = [pc EXCEPT ![t] = "encode"]
    /\ UNCHANGED <<native, pool, active, started, pinned>>

\* mutant: wrapped_message is one variable shared by all calls, so writing it
\* replaces the value every call that has not encoded yet will read
DoWrapShared(t) ==
    /\ pc[t] = "wrap"
    /\ frame' = [u \in Threads |->
                    IF u = t
                    THEN [frame[u] EXCEPT !.wrapped_message = Wrap(frame[t].message),
                                          !.stages = Append(@, "wrap")]
                    ELSE IF pc[u] = "encode"
                    THEN [frame[u] EXCEPT !.wrapped_message = Wrap(frame[t].message)]
                    ELSE frame[u]]
    /\ pc' = [pc EXCEPT ![t] = "encode"]
    /\ UNCHANGED <<module, native, pool, active, started, pinned>>

\* line 20
DoWrap(t) ==
    /\ pc[t] = "wrap"
    /\ frame' = [frame EXCEPT ![t].wrapped_message = Wrap(frame[t].message),
                              ![t].stages = Append(@, "wrap")]
    /\ pc' = [pc EXCEPT ![t] = "encode"]
    /\ UNCHANGED <<module, native, pool, active, started, pinned>>

\* lines 22-24; an .encode() that fails raises out of verify
DoEncode(t) ==
    /\ pc[t] = "encode"
    /\ IF ArgsEncodable(frame[t])
       THEN /\ frame' = [frame EXCEPT ![t].args = EncodeArgs(frame[t])]
            /\ pc' = [pc EXCEPT ![t] = "call"]
       ELSE /\ frame' = [frame EXCEPT ![t].outcome = Raise("UnicodeEncodeError")]
            /\ pc' = [pc EXCEPT ![t] = "done"]
    /\ UNCHANGED <<module, native, pool, active, started, pinned>>

\* line 21: the foreign call; each c_char_p argument is read up to its NUL
DoCall(t) ==
    /\ pc[t] = "call"
    /\ frame' = [frame EXCEPT ![t].cargs = [i \in 1..3 |-> CStr(frame[t].args[i])],
                              ![t].ncalls = @ + 1]
    /\ pc' = [pc EXCEPT ![t] = "n_addr"]
    /\ UNCHANGED <<module, native, pool, active, started, pinned>>

NativeDecodeAddress(t) ==
    /\ pc[t] = "n_addr"
    /\ LET d == decode_ss58(frame[t].cargs[1])
       IN /\ frame' = [frame EXCEPT ![t].pubkey = d.key,
                                    ![t].kind = d.err,
                                    ![t].stages = Append(@, "decode_address")]
          /\ pc' = [pc EXCEPT ![t] = IF d.err = "none" THEN "n_sig" ELSE "n_ret"]
    /\ UNCHANGED <<module, native, pool, active, started, pinned>>

NativeDecodeSignature(t) ==
    /\ pc[t] = "n_sig"
    /\ LET g == decode_signature(frame[t].cargs[2])
       IN /\ frame' = [frame EXCEPT ![t].sig = g.bytes,
                                    ![t].kind = g.err,
                                    ![t].stages = Append(@, "decode_signature")]
          /\ pc' = [pc EXCEPT ![t] = IF g.err = "none" THEN "n_verify" ELSE "n_ret"]
    /\ UNCHANGED <<module, native, pool, active, started, pinned>>

NativeVerify(t) ==
    /\ pc[t] = "n_verify"
    /\ frame' = [frame EXCEPT
                   ![t].kind = sr25519_verify(frame[t].pubkey, frame[t].sig,
                                              frame[t].cargs[3]),
                   ![t].stages = Append(@, "verify")]
    /\ pc' = [pc EXCEPT ![t] = "n_ret"]
    /\ UNCHANGED <<module, native, pool, active, started, pinned>>

\* the foreign function returns; ctypes converts the value by restype
NativeReturn(t) ==
    /\ pc[t] = "n_ret"
    /\ frame' = [frame EXCEPT ![t].result =
                    Restype(IF native.stub THEN native.ret
                            ELSE NativeVerdict(frame[t].kind))]
    /\ pc' = [pc EXCEPT ![t] = "compare"]
    /\ UNCHANGED <<module, native, pool, active, started, pinned>>

\* mutant: a verification that did not succeed is tried once more
DoCompareRetry(t) ==
    /\ pc[t] = "compare"
    /\ IF frame[t].result # 1 /\ frame[t].ncalls < 2
       THEN /\ pc' = [pc EXCEPT ![t] = "call"]
            /\ UNCHANGED frame
       ELSE /\ frame' = [frame EXCEPT ![t].outcome = ReturnBool(ToBool(frame[t].result))]
            /\ pc' = [pc EXCEPT ![t] = "done"]
    /\ UNCHANGED <<module, native, pool, active, started, pinned>>

\* line 26
DoCompare(t) ==
    /\ pc[t] = "compare"
    /\ frame' = [frame EXCEPT ![t].outcome = ReturnBool(ToBool(frame[t].result))]
    /\ pc' = [pc EXCEPT ![t] = "done"]
    /\ UNCHANGED <<module, native, pool, active, started, pinned>>

\* the call is over: its locals are discarded
Finish(t) ==
    /\ pc[t] \in {"done", "gv_done"}
    /\ pinned' = IF pc[t] = "done" /\ ~pinned.set
                 THEN [set |-> TRUE, input |-> InputOf(frame[t]),
                       kind |-> frame[t].kind, outcome |-> frame[t].outcome]
                 ELSE pinned
    /\ frame' = [frame EXCEPT ![t] = EmptyFrame]
    /\ pc' = [pc EXCEPT ![t] = "idle"]
    /\ UNCHANGED <<module, native, pool, active, started>>

\* ------------------------------------------------------- get_version()
CallGetVersion(t) ==
    /\ t \in active
    /\ pc[t] = "idle"
    /\ started < MaxCalls
    /\ started' = started + 1
    /\ frame' = [frame EXCEPT ![t] = EmptyFrame]
    /\ pc' = [pc EXCEPT ![t] = "gv_call"]
    /\ UNCHANGED <<module, native, pool, active, pinned>>

\* lib.get_version(): restype c_char_p reads the static buffer up to its NUL
DoGetVersion(t) ==
    /\ pc[t] = "gv_call"
    /\ frame' = [frame EXCEPT ![t].args = <<CStr(native.version)>>]
    /\ pc' = [pc EXCEPT ![t] = "gv_decode"]
    /\ UNCHANGED <<module, native, pool, active, started, pinned>>

DoDecodeVersion(t) ==
    /\ pc[t] = "gv_decode"
    /\ frame' = [frame EXCEPT ![t].outcome = GvResult(frame[t].args[1])]
    /\ pc' = [pc EXCEPT ![t] = "gv_done"]
    /\ UNCHANGED <<module, native, pool, active, started, pinned>>

\* ------------------------------------------------------ specifications
InitCommon ==
    /\ pc = [t \in Threads |-> "idle"]
    /\ frame = [t \in Threads |-> EmptyFrame]
    /\ module = ModuleInit
    /\ started = 0
    /\ pinned = NoPin

\* one caller, the library as specified
Init ==
    /\ InitCommon
    /\ native = [stub |-> FALSE, ret |-> 0, version |-> VersionStatic \o <<0>>]
    /\ pool = Inputs
    /\ active = {1}

\* several caller threads
InitConc ==
    /\ InitCommon
    /\ native = [stub |-> FALSE, ret |-> 0, version |-> VersionStatic \o <<0>>]
    /\ pool = ConcInputs
    /\ active = Threads

\* one caller, a library whose return byte is arbitrary
InitAbi ==
    /\ InitCommon
    /\ \E r \in 0..255 :
          native = [stub |-> TRUE, ret |-> r, version |-> VersionStatic \o <<0>>]
    /\ pool = {In(GoodAddr, GoodSig(MsgA), MsgA), In(GoodAddr, GoodSig(MsgA), MsgEmpty)}
    /\ active = {1}

Next ==
    \/ \E t \in Threads : \E in \in Inputs : CallVerify(t, in)
    \/ \E t \in Threads : DoWrap(t)
    \/ \E t \in Threads : DoEncode(t)
    \/ \E t \in Threads : DoCall(t)
    \/ \E t \in Threads : NativeDecodeAddress(t)
    \/ \E t \in Threads : NativeDecodeSignature(t)
    \/ \E t \in Threads : NativeVerify(t)
    \/ \E t \in Threads : NativeReturn(t)
    \/ \E t \in Threads : DoCompare(t)
    \/ \E t \in Threads : CallGetVersion(t)
    \/ \E t \in Threads : DoGetVersion(t)
    \/ \E t \in Threads : DoDecodeVersion(t)
    \/ \E t \in Threads : Finish(t)

Spec == Init /\ [][Next]_vars

SpecConc == InitConc /\ [][Next]_vars

SpecAbi == InitAbi /\ [][Next]_vars

\* ------------------------------------------------------------ claims
NativeInit == [stub |-> FALSE, ret |-> 0, version |-> VersionStatic \o <<0>>]

Entered(t) == frame[t].ncalls >= 1

Count(seq, x) == Cardinality({i \in 1..Len(seq) : seq[i] = x})

\* verify(in) run on its own, start to end
VerifyAlone(in) ==
    IF ~(Encodable(in.address) /\ Encodable(in.signature) /\ Encodable(Wrap(in.message)))
    THEN Raise("UnicodeEncodeError")
    ELSE ReturnBool(ToBool(Restype(NativeVerdict(
             verify_polkadot_signature(CStr(StrEncode(in.address)),
                                       CStr(StrEncode(in.signature)),
                                       CStr(StrEncode(Wrap(in.message))))))))

\* C1: the bytes object handed to the native verifier as its message argument
\* is "<Bytes>" + utf8(message) + "</Bytes>", the envelope applied once and
\* unconditionally (an already wrapped message is wrapped again).
C1_ExactEnvelope ==
    \A t \in Threads :
        Entered(t) =>
            /\ frame[t].args[3] = OpenTag \o StrEncode(frame[t].message) \o CloseTag
            /\ Count(frame[t].stages, "wrap") = 1

C1_Witness ==
    \E t \in Threads :
        /\ Entered(t)
        /\ frame[t].message = MsgWrapped
        /\ frame[t].args[3] = OpenTag \o OpenTag \o MsgA \o CloseTag \o CloseTag

\* C2: verify is total: every finished call returned a boolean, no exception
\* escaped.
C2_Total ==
    \A t \in Threads :
        pc[t] = "done" => frame[t].outcome.kind = "return" /\ frame[t].outcome.type = "bool"

\* C3: verify returns True exactly when the native call returned the uint8 1,
\* False for every other value in 0..255.
C3_TrueIffOne ==
    \A t \in Threads :
        pc[t] = "done" /\ Entered(t) =>
            /\ frame[t].outcome.kind = "return"
            /\ frame[t].outcome.type = "bool"
            /\ frame[t].outcome.bool <=>
                  (IF native.stub THEN native.ret ELSE NativeVerdict(frame[t].kind)) = 1

C3_Witness ==
    \E t \in Threads :
        /\ pc[t] = "done"
        /\ native.stub
        /\ native.ret = 255
        /\ frame[t].outcome = ReturnBool(FALSE)

\* C4: a verify call with the same input as an earlier finished call returns
\* the same result, whatever was called in between, and no call changes the
\* module state or the library.
C4_Purity ==
    /\ module = ModuleInit
    /\ native = NativeInit
    /\ \A t \in Threads :
          pc[t] = "done" /\ pinned.set /\ InputOf(frame[t]) = pinned.input =>
              frame[t].outcome = pinned.outcome

C4_Witness ==
    \E t \in Threads :
        /\ pc[t] = "done"
        /\ pinned.set
        /\ InputOf(frame[t]) = pinned.input
        /\ started = 3

\* C5: under any interleaving of the steps of concurrent calls, each call
\* returns what it returns when run alone.
C5_SameAsAlone ==
    \A t \in Threads :
        pc[t] = "done" => frame[t].outcome = VerifyAlone(InputOf(frame[t]))

C5_Witness ==
    \E t, u \in Threads :
        /\ t # u
        /\ pc[t] = "done"
        /\ frame[t].outcome = ReturnBool(TRUE)
        /\ pc[u] \in {"encode", "call", "n_addr", "n_sig", "n_verify", "n_ret", "compare"}
        /\ InputOf(frame[u]) # InputOf(frame[t])

StageOrder == <<"wrap", "decode_address", "decode_signature", "verify">>

C7_NoStageLeak ==
    \A t \in Threads :
        pc[t] = "done" /\ frame[t].kind \in ErrorKinds =>
            /\ frame[t].outcome = ReturnBool(FALSE)
            /\ pinned.set /\ pinned.kind \in ErrorKinds =>
                  pinned.outcome = frame[t].outcome

C7_Witness ==
    \E t \in Threads :
        /\ pc[t] = "done"
        /\ frame[t].kind = "EquationMismatch"
        /\ pinned.set
        /\ pinned.kind = "InvalidEncoding"

\* C8: get_version returns the static version string on every call, whatever
\* was called before, and leaves the state verify reads untouched.
C8_StaticVersion ==
    \A t \in Threads :
        pc[t] = "gv_done" =>
            /\ frame[t].outcome = ReturnStr(VersionStatic)
            /\ module = ModuleInit
            /\ native = NativeInit

C8_Witness ==
    \E t \in Threads : pc[t] = "gv_done" /\ pinned.set /\ started = 3

\* C9: the message the native verifier reads, up to the first NUL, begins
\* with "<Bytes>" and ends with "</Bytes>".
C9_CompleteEnvelope ==
    \A t \in Threads :
        Entered(t) =>
            /\ StartsWith(frame[t].cargs[3], OpenTag)
            /\ EndsWith(frame[t].cargs[3], CloseTag)

\* C10: a verify call that returns has invoked the native function exactly
\* once, and no call invokes it a second time, whatever it returned.
C10_SingleInvocation ==
    \A t \in Threads :
        /\ frame[t].ncalls <= 1
        /\ pc[t] = "done" /\ frame[t].outcome.kind = "return" => frame[t].ncalls = 1

C10_Witness ==
    \E t \in Threads :
        /\ pc[t] = "done"
        /\ frame[t].outcome = ReturnBool(FALSE)
        /\ frame[t].ncalls = 1

====
